---- MODULE Spec2Model ----
(***************************************************************************)
(* Model of the bulk product updater (src/update.py): the resume merge of  *)
(* ProductBulkUpdater.__init__, _prepare, the submit phase run_updates     *)
(* with its worker pool, the poll loop, stop() and _save, and the payload  *)
(* builder PayloadGenerator.build, and the API client: TokenManager and   *)
(* the retry loop of ProductAPI._request, alone and shared by threads.     *)
(*                                                                         *)
(* A spreadsheet is a record [cols, rows]: cols is the set of header names *)
(* and rows a sequence of functions from header name to cell.  A cell is a *)
(* string; NaN stands for the float nan that pandas gives an empty cell    *)
(* when a file is read with dtype=str.  A DataFrame adds the index: index  *)
(* is "" for the default RangeIndex or the name of the column moved into   *)
(* the index by set_index, whose values are then in ikeys.                 *)
(***************************************************************************)
EXTENDS Integers, Sequences, FiniteSets, TLC

\* ---------------------------------------------------------------- bounds
NRows == 2
MaxWorkers == 2
MaxRounds == 2
NThreads == 2
MaxApiRetries == 3
MaxLogins == 4
MaxTicks == 2

\* ------------------------------------------------------------- constants
NaN == "NaN"

STATUS_UPDATING == "updating"
STATUS_SUCCESS == "success"
STATUS_FAILED == "failed"
STATUS_FAIL_ALT == "fail"
NoFailed_SKIP_STATUSES == {STATUS_SUCCESS, STATUS_UPDATING}
SKIP_STATUSES == {STATUS_SUCCESS, STATUS_FAILED, STATUS_FAIL_ALT, STATUS_UPDATING}

Modes == {"taobao", "warehouse"}

\* MODE_CONFIG[mode]["required"]
Required(m) == IF m = "taobao" THEN {"sku id", "taobao_id"} ELSE {"sku_id", "warehouse"}

Tracked == {"status", "record_id", "error_message"}

\* settings["toonies"]["store_front"]: the prefix put before a warehouse-mode SKU
TOONIES_STORE_FRONT == "H"

\* ------------------------------------------------------- string functions
\* str.lower() on the strings of the model
Lower(s) ==
    CASE s = "SUCCESS" -> "success"
      [] s = "Updating" -> "updating"
      [] s = "FAILED" -> "failed"
      [] s = "SKU ID" -> "sku id"
      [] s = "SKU_ID" -> "sku_id"
      [] s = "Status" -> "status"
      [] OTHER -> s

\* str.strip() on the strings of the model
Strip(s) ==
    CASE s = " " -> ""
      [] s = " a" -> "a"
      [] s = "SKU_ID " -> "SKU_ID"
      [] OTHER -> s

\* x.startswith(TOONIES_STORE_FRONT)
StartsWithStoreFront(s) == s \in {"Ha", "Hb"}

\* TOONIES_STORE_FRONT + x
AddStoreFront(s) ==
    CASE s = "a" -> "Ha"
      [] s = "b" -> "Hb"
      [] OTHER -> s

\* settings["toonies"]["replace_dict"] applied by Series.replace: whole-cell replacement
ReplaceDict(s) ==
    CASE s = "W-name" -> "w1"
      [] OTHER -> s

\* ------------------------------------------------------------ DataFrames
NoFile == [cols |-> {}, rows |-> <<>>, exists |-> FALSE]

File(cols, rows) == [cols |-> cols, rows |-> rows, exists |-> TRUE]

\* pd.read_excel(path, dtype=str): the sheet as a frame with the default index
ReadExcel(f) == [cols |-> f.cols, rows |-> f.rows, index |-> "", ikeys |-> <<>>]

\* df.columns = [c.strip().lower() for c in df.columns]
NormCols(fr) ==
    LET nc(c) == Lower(Strip(c))
        newcols == {nc(c) : c \in fr.cols}
        raw(c) == CHOOSE r \in fr.cols : nc(r) = c
    IN [fr EXCEPT !.cols = newcols,
                  !.rows = [i \in 1..Len(fr.rows) |-> [c \in newcols |-> fr.rows[i][raw(c)]]]]

\* df.set_index(key)
SetIndex(fr, key) ==
    [cols |-> fr.cols \ {key},
     rows |-> [i \in 1..Len(fr.rows) |-> [c \in fr.cols \ {key} |-> fr.rows[i][c]]],
     index |-> key,
     ikeys |-> [i \in 1..Len(fr.rows) |-> fr.rows[i][key]]]

\* df.reset_index()
ResetIndex(fr) ==
    [cols |-> fr.cols \cup {fr.index},
     rows |-> [i \in 1..Len(fr.rows) |->
                 [c \in fr.cols \cup {fr.index} |->
                     IF c = fr.index THEN fr.ikeys[i] ELSE fr.rows[i][c]]],
     index |-> "",
     ikeys |-> <<>>]

HasDuplicates(s) == \E i, j \in 1..Len(s) : i # j /\ s[i] = s[j]

\* DataFrame.update raises when other's index has duplicate labels (reindex)
UpdateRaises(prev) == HasDuplicates(prev.ikeys)

\* base.update(prev): for the columns both frames have, a cell of base is
\* replaced by the cell of prev with the same index label when that cell is not NaN
Update(base, prev) ==
    LET match(i) == {j \in 1..Len(prev.rows) : prev.ikeys[j] = base.ikeys[i]}
        cell(i, c) ==
            IF c \in prev.cols /\ match(i) # {}
            THEN LET v == prev.rows[CHOOSE j \in match(i) : TRUE][c]
                 IN IF v # NaN THEN v ELSE base.rows[i][c]
            ELSE base.rows[i][c]
    IN [base EXCEPT !.rows = [i \in 1..Len(base.rows) |-> [c \in base.cols |-> cell(i, c)]]]

\* lines 226-241 of __init__: the source rows with the previous result overlaid
ResumeKey(cols) == IF "sku id" \in cols THEN "sku id" ELSE "sku_id"

ResumeMerge(src, out) ==
    LET base == NormCols(ReadExcel(src))
    IN IF ~out.exists THEN base
       ELSE LET prev == NormCols(ReadExcel(out))
                key == ResumeKey(base.cols)
            IN IF key \in base.cols /\ key \in prev.cols
               THEN LET b1 == SetIndex(base, key)
                        p1 == SetIndex(prev, key)
                    IN IF UpdateRaises(p1)
                       THEN b1                       \* except: base_df stays re-indexed
                       ELSE ResetIndex(Update(b1, p1))
               ELSE base

\* _prepare raises ValueError when a required column is missing
NeverRaises_PrepareRaises(m, fr) == FALSE
PrepareRaises(m, fr) == \E c \in Required(m) : c \notin fr.cols

FillStrip(v) == Strip(IF v = NaN THEN "" ELSE v)

\* the lambda of line 255
StoreFront(x) == IF x # "" /\ ~StartsWithStoreFront(x) THEN AddStoreFront(x) ELSE x

\* _prepare, lines 248-257
Prepare(m, fr) ==
    LET cols2 == fr.cols \cup Tracked
        cell(i, c) ==
            LET v0 == IF c \in fr.cols THEN fr.rows[i][c] ELSE ""
                v1 == IF c \in Required(m) THEN FillStrip(v0) ELSE v0
            IN IF m = "warehouse" /\ c = "sku_id" THEN StoreFront(v1)
               ELSE IF m = "warehouse" /\ c = "warehouse" THEN ReplaceDict(v1)
               ELSE v1
    IN [fr EXCEPT !.cols = cols2,
                  !.rows = [i \in 1..Len(fr.rows) |-> [c \in cols2 |-> cell(i, c)]]]

\* df.to_excel(path, index=False): an empty string is written as an empty
\* cell, which reads back as NaN
ToExcel(fr) ==
    File(fr.cols,
         [i \in 1..Len(fr.rows) |->
             [c \in fr.cols |-> IF fr.rows[i][c] = "" THEN NaN ELSE fr.rows[i][c]]])

\* -------------------------------------------------------- payload builder
\* A template is [product, additional, top, hktv]: product and additional say
\* whether the keys "product" and product["additional"] exist, top maps the
\* other keys of product to their values and hktv maps the keys of
\* product["additional"]["hktv"] (empty when there is none).  A search record
\* is [top, hktv], the same two maps of the product found.  None is Python's
\* None for an argument that was not passed or a column the row lacks.
None == "None"

TMALL_LABEL == "tmall"

\* PayloadGenerator.tmall_setting
tmall_setting(product_id, sku_id) ==
    [source |-> <<TMALL_LABEL>>, product_id |-> product_id, sku_id |-> sku_id]

\* PayloadGenerator._fill_additional: template keys of hktv filled from the record
FillAdditional(hktv, src) ==
    [k \in DOMAIN hktv |->
        IF k = "primary_category_code"
        THEN IF "primary_category" \in DOMAIN src /\ src["primary_category"] # ""
             THEN src["primary_category"] ELSE hktv[k]
        ELSE IF k \in DOMAIN src THEN src[k] ELSE hktv[k]]

\* PayloadGenerator.build raises: IndexError on an empty record list (line
\* 162), KeyError when the template has no "product" (line 171); "" if neither
BuildRaises(t, records) ==
    IF records = <<>> THEN "list index out of range"
    ELSE IF ~t.product THEN "'product'"
    ELSE ""

\* lines 172-177: the mode-specific linkage
Linkage(hktv, taobao_id, taobao_sku_id, warehouse_id) ==
    IF warehouse_id # None /\ warehouse_id # ""
    THEN LET keys == (DOMAIN hktv \cup {"warehouse_id"}) \ {"external_platform"}
         IN [k \in keys |-> IF k = "warehouse_id" THEN warehouse_id ELSE hktv[k]]
    ELSE LET keys == (DOMAIN hktv \cup {"external_platform"}) \ {"warehouse_id"}
         IN [k \in keys |-> IF k = "external_platform"
                            THEN tmall_setting(taobao_id, taobao_sku_id) ELSE hktv[k]]

\* PayloadGenerator.build, lines 162-178, when it does not raise
Build(t, records, taobao_id, taobao_sku_id, warehouse_id) ==
    LET data == records[1]
        top == [k \in DOMAIN t.top |-> IF k \in DOMAIN data.top THEN data.top[k] ELSE t.top[k]]
        hk0 == IF t.additional THEN FillAdditional(t.hktv, data.hktv) ELSE t.hktv
    IN [top |-> top, hktv |-> Linkage(hk0, taobao_id, taobao_sku_id, warehouse_id)]

\* row.get(col): None when the row has no such column
RowGet(row, c) == IF c \in DOMAIN row THEN row[c] ELSE None

\* build_payload_taobao / build_payload_warehouse through self.cfg["builder"]
Payload(m, t, row, records) ==
    IF m = "taobao"
    THEN Build(t, records, RowGet(row, "taobao_id"),
               IF RowGet(row, "taobao_sku_id") = "" THEN None ELSE RowGet(row, "taobao_sku_id"),
               None)
    ELSE Build(t, records, None, None, RowGet(row, "warehouse"))

\* ----------------------------------------------------------------- state
VARIABLES
    mode,        \* the mode argument of __init__
    source,      \* the source spreadsheet
    outFile,     \* the result file (output_file); NoFile while it does not exist
    template,    \* PayloadGenerator.template()
    pc,          \* where the orchestrator thread is
    df,          \* self.df
    running,     \* self._is_running
    executor,    \* self._executor: "none", or the pool it refers to, "open" or "shut"
    tstate,      \* per row, the future of the current phase or round
    tres,        \* per row, the result the future holds once it is done
    cursor,      \* how many rows the dispatch loop has gone through
    pending,     \* the indices of the rows the current poll round selected
    maxRetries,  \* poll's max_retries: {} for None, {n} for n
    attempt,     \* poll's attempt counter
    sleeps,      \* how many times poll has slept
    stopPc,      \* where the thread calling stop() is
    stopAt,      \* the part of the run in which stop() set the flag ("" before)
    calls,       \* per row, the remote calls made for it
    merged,      \* the rows whose result was written back in the submit phase
    df0,         \* the dataset as construction left it
    run,         \* 1 in the first run of the orchestrator, 2 in the second
    end1,        \* the dataset at the end of the first run
    resolvedAt,  \* the poll round in which the last updating row left that status
    built,       \* per row, <<payload>> once the payload is built (payload specification)
    lock,        \* self.lock: "free", or the thread that holds it
    clock,       \* datetime.now(), in minutes
    api,         \* the ProductAPI object: max_retries, backoff, and whether __init__ is over
    tok,         \* TokenManager.token and TokenManager.expiry
    logins,      \* how many logins the server has answered with 200
    th,          \* per thread using the client, its position in _request
    paths        \* source_file and output_file (<<>> before __init__ sets it)

apiVars == <<clock, api, tok, logins, th>>

runVars == <<mode, source, outFile, template, pc, df, running, executor, tstate, tres,
             cursor, pending, maxRetries, attempt, sleeps, stopPc, stopAt, calls,
             merged, df0, run, end1, resolvedAt, built, lock, paths>>

vars == <<mode, source, outFile, template, pc, df, running, executor, tstate, tres,
          cursor, pending, maxRetries, attempt, sleeps, stopPc, stopAt, calls,
          merged, df0, run, end1, resolvedAt, built, lock, clock, api, tok, logins, th,
          paths>>

Rows == 1..NRows

NoCalls == [search |-> 0, submit |-> 0, status |-> 0]

\* ------------------------------------------------------------ row results
SkipResult == [skip |-> TRUE, status |-> "", record_id |-> "", error_message |-> ""]

Result(st, rid, err) == [skip |-> FALSE, status |-> st, record_id |-> rid, error_message |-> err]

AttrErrLower == "'float' object has no attribute 'lower'"
AttrErrStrip == "'float' object has no attribute 'strip'"
RequestFailed == "Request failed after 3 attempts"

\* _skip: (row.get("status") or "").lower() in SKIP_STATUSES; a NaN status is
\* truthy, so .lower() is called on a float and raises (see RowEntry)
NoLower__skip(status) == status \in SKIP_STATUSES
_skip(status) == Lower(status) \in SKIP_STATUSES

\* the cancellation test, if not self._is_running (lines 272, 321, 355)
Never_Cancelled(isRunning) == FALSE
Cancelled(isRunning) == ~isRunning

\* line 277
SkuCol(row) == IF "sku id" \in DOMAIN row THEN "sku id" ELSE "sku_id"

\* _update_row, lines 272-280: what the row processor decides before any
\* remote call.  "go" means it goes on to search_product.
RowEntry(isRunning, row) ==
    IF Cancelled(isRunning) THEN SkipResult
    ELSE IF row["status"] = NaN THEN Result(STATUS_FAILED, "", AttrErrLower)
    ELSE IF _skip(row["status"]) THEN SkipResult
    ELSE IF row[SkuCol(row)] = "" THEN Result(STATUS_FAILED, "", "Missing SKU")
    ELSE [skip |-> FALSE, status |-> "go", record_id |-> "", error_message |-> ""]

\* the record search_product returns for a product that exists
FoundRecord ==
    [top |-> [name |-> "n1"],
     hktv |-> [warehouse_id |-> "w0", primary_category |-> "c1"]]

SearchResponses == {"found", "empty", "error"}

\* lines 281-282 and the except of 291: the search result, then the payload
SkipOnError_AfterSearch(m, t, row, resp) ==
    IF resp = "error" THEN SkipResult
    ELSE LET records == IF resp = "found" THEN <<FoundRecord>> ELSE <<>>
         IN IF BuildRaises(t, records) # ""
            THEN Result(STATUS_FAILED, "", BuildRaises(t, records))
            ELSE [skip |-> FALSE, status |-> "go", record_id |-> "", error_message |-> ""]
AfterSearch(m, t, row, resp) ==
    IF resp = "error" THEN Result(STATUS_FAILED, "", RequestFailed)
    ELSE LET records == IF resp = "found" THEN <<FoundRecord>> ELSE <<>>
         IN IF BuildRaises(t, records) # ""
            THEN Result(STATUS_FAILED, "", BuildRaises(t, records))
            ELSE [skip |-> FALSE, status |-> "go", record_id |-> "", error_message |-> ""]

SubmitResponses == {"ok", "ok_noid", "rejected", "error"}

\* lines 283-292: the submit response mapped to the row's result
AfterSubmit(resp) ==
    CASE resp = "ok" -> Result(STATUS_UPDATING, "r1", "")
      [] resp = "ok_noid" -> Result(STATUS_UPDATING, "", "")
      [] resp = "rejected" -> Result(STATUS_FAILED, "", "duplicate")
      [] OTHER -> Result(STATUS_FAILED, "", RequestFailed)

\* run_updates, lines 303-309: the write-back of one result
MergeSubmit(row, r) ==
    [c \in DOMAIN row |->
        IF c = "status" THEN r.status
        ELSE IF c = "record_id" /\ r.record_id # "" THEN r.record_id
        ELSE IF c = "error_message" /\ r.error_message # "" THEN r.error_message
        ELSE row[c]]

\* the worker pool takes queued futures in submission order, one per free worker
CanStart(i) ==
    /\ tstate[i] \in {"queued", "pqueued"}
    /\ Cardinality({j \in Rows : tstate[j] \in {"search", "submit", "status"}})
         + Cardinality({j \in Rows : j < i /\ tstate[j] \in {"queued", "pqueued"}}) < MaxWorkers

\* ------------------------------------------------------- the API client
\* TokenManager and ProductAPI._request.  A token is the number of the login
\* that issued it (0 for None); time is counted in minutes and moves in steps
\* of TICK; delays are in milliseconds and backoff factors in thousandths.
Threads == 1..NThreads

TOKEN_TTL == 20
TICK == 10
INITIAL_DELAY == 1000
Backoffs == {1500, 2000}

NoToken == [token |-> 0, expAt |-> 0, expLogin |-> 0]

\* TokenManager.expired, line 77
expired(tk, now) == tk.expLogin = 0 \/ now >= tk.expAt

\* the test of get(), line 93
LoginAlways_MustLogin(tk, now) == TRUE
MustLogin(tk, now) == tk.token = 0 \/ expired(tk, now)

LoginCodes == {"200", "500", "timeout"}
ResponseCodes == {"200", "401", "500", "timeout"}

\* str(e) of the exception an answer raises: lines 90, 121, 123, or the
\* exception of requests for a transport error
LoginFailed(code) == IF code = "timeout" THEN "ReadTimeout" ELSE "Login failed 500 body"
Unauthorized == "Unauthorized, token refreshed, retrying"
ResponseFailed(code) == IF code = "timeout" THEN "ReadTimeout" ELSE "POST url 500 body"

\* what a thread saw in its last get(): the fields read by the test of line
\* 93, the time, the outcome of the test, and the logins made since
NoCheck == [token |-> 0, expAt |-> 0, expLogin |-> 0, now |-> 0, login |-> FALSE, posts |-> 0]

IdleThread ==
    [pc |-> "idle", ctx |-> "", attempt |-> 0, delay |-> INITIAL_DELAY, slept |-> <<>>,
     sends |-> 0, sent |-> 0, need |-> 0, got |-> 0, after401 |-> 0, chk |-> NoCheck,
     err |-> ""]

\* the client objects of an orchestrator whose API calls are not followed
ApiIdle ==
    /\ clock = 0
    /\ api = [max_retries |-> 3, backoff |-> 1500, state |-> "ready"]
    /\ tok = [token |-> 1, expAt |-> TOKEN_TTL, expLogin |-> 1]
    /\ logins = <<0>>
    /\ th = [t \in Threads |-> IdleThread]

\* ProductAPI(max_retries, backoff) is being constructed by thread 1, which
\* is in the refresh() of TokenManager.__init__ (lines 70-74, 98-101)
InitApi ==
    /\ clock = 0
    /\ \E n \in 1..MaxApiRetries, b \in Backoffs :
         api = [max_retries |-> n, backoff |-> b, state |-> "new"]
    /\ tok = NoToken
    /\ logins = <<>>
    /\ th = [t \in Threads |-> IF t = 1 THEN [IdleThread EXCEPT !.pc = "login", !.ctx = "init"]
                                ELSE IdleThread]

\* ------------------------------------------------------------ file paths
\* A path is the sequence of its characters.
\* str.replace(old, new): every occurrence of old, from the left
RECURSIVE Replace(_, _, _)
Replace(str, old, new) ==
    IF Len(str) < Len(old) THEN str
    ELSE IF SubSeq(str, 1, Len(old)) = old
    THEN new \o Replace(SubSeq(str, Len(old) + 1, Len(str)), old, new)
    ELSE <<Head(str)>> \o Replace(Tail(str), old, new)

DotXlsx == <<".", "x", "l", "s", "x">>
DotXls == <<".", "x", "l", "s">>
Suffix_result == <<"_", "r", "e", "s", "u", "l", "t">>

\* line 219, for an orchestrator made without output_file
OutputFile(source_file) == Replace(source_file, DotXlsx, Suffix_result \o DotXlsx)

\* str.lower on the characters of a path
LowerChar(ch) ==
    CASE ch = "A" -> "a" [] ch = "X" -> "x" [] ch = "L" -> "l" [] ch = "S" -> "s"
      [] OTHER -> ch

LowerPath(path) == [k \in 1..Len(path) |-> LowerChar(path[k])]

\* str.endswith
EndsWith(str, suffix) ==
    Len(str) >= Len(suffix) /\ SubSeq(str, Len(str) - Len(suffix) + 1, Len(str)) = suffix

\* the test of the input path, app.py line 336
Accepted(path) == EndsWith(LowerPath(path), DotXlsx) \/ EndsWith(LowerPath(path), DotXls)

DefaultPath == <<"a">> \o DotXlsx

\* ----------------------------------------------------------------- inputs
DefaultTemplate ==
    [product |-> TRUE, additional |-> TRUE,
     top |-> [name |-> ""],
     hktv |-> [warehouse_id |-> "", primary_category_code |-> ""]]

SkuHeader(m) == IF m = "taobao" THEN "SKU ID" ELSE "SKU_ID "
TargetHeader(m) == IF m = "taobao" THEN "taobao_id" ELSE "warehouse"

\* a source row: the two required cells and, when the sheet has the tracked
\* columns, the three tracked cells
SrcRow(m, sku, target, tr) ==
    IF tr = <<>>
    THEN (SkuHeader(m) :> sku) @@ (TargetHeader(m) :> target)
    ELSE (SkuHeader(m) :> sku) @@ (TargetHeader(m) :> target)
         @@ ("Status" :> tr[1]) @@ ("record_id" :> tr[2]) @@ ("error_message" :> tr[3])

SrcCols(m, hasTracked) ==
    {SkuHeader(m), TargetHeader(m)}
      \cup (IF hasTracked THEN {"Status", "record_id", "error_message"} ELSE {})

\* the rows of the run specification: a row to process, a row without SKU,
\* and rows a previous run has left in each status
PlainRows(m) == {SrcRow(m, sku, "t1", <<>>) : sku \in {"a", NaN}}

TrackedRows(m) ==
    {SrcRow(m, "a", "t1", <<NaN, NaN, NaN>>),
     SrcRow(m, NaN, "t1", <<NaN, NaN, NaN>>),
     SrcRow(m, "b", "t1", <<"SUCCESS", "r9", NaN>>),
     SrcRow(m, "b", "t1", <<"updating", "r9", NaN>>),
     SrcRow(m, "b", "t1", <<"updating", NaN, NaN>>),
     SrcRow(m, "b", "t1", <<"failed", NaN, "e0">>)}

RunSources(m) ==
    {File(SrcCols(m, FALSE), rows) : rows \in [Rows -> PlainRows(m)]}
      \cup {File(SrcCols(m, TRUE), rows) : rows \in [Rows -> TrackedRows(m)]}

\* sheets that lack one of the two columns the mode requires
MissingSources(m) ==
    {File({h}, [i \in Rows |-> (h :> "a")]) : h \in {SkuHeader(m), TargetHeader(m)}}

InitCommon ==
    /\ pc = "new"
    /\ df = [cols |-> {}, rows |-> <<>>, index |-> "", ikeys |-> <<>>]
    /\ df0 = df
    /\ running = TRUE
    /\ executor = "none"
    /\ tstate = [i \in Rows |-> "none"]
    /\ tres = [i \in Rows |-> SkipResult]
    /\ cursor = 0
    /\ pending = {}
    /\ maxRetries = {}
    /\ attempt = 0
    /\ sleeps = 0
    /\ stopPc = "idle"
    /\ stopAt = ""
    /\ calls = [i \in Rows |-> NoCalls]
    /\ merged = {}
    /\ run = 1
    /\ end1 = df
    /\ resolvedAt = 0
    /\ built = [i \in Rows |-> <<>>]

Init ==
    /\ mode \in Modes
    /\ source \in RunSources(mode) \cup MissingSources(mode)
    /\ outFile = NoFile
    /\ template = DefaultTemplate
    /\ InitCommon
    /\ lock = "free"
    /\ paths = [source_file |-> DefaultPath, output_file |-> <<>>]
    /\ ApiIdle

\* ----------------------------------------------------------- construction
\* ProductBulkUpdater.__init__ with _prepare
Construct ==
    /\ pc = "new"
    /\ LET merged0 == ResumeMerge(source, outFile)
       IN IF PrepareRaises(mode, merged0)
          THEN /\ pc' = "ctor_raised"
               /\ df' = merged0
          ELSE /\ pc' = "ready"
               /\ df' = Prepare(mode, merged0)
    /\ df0' = df'
    /\ running' = TRUE
    /\ paths' = [paths EXCEPT !.output_file = OutputFile(paths.source_file)]
    /\ UNCHANGED <<apiVars, lock, mode, source, outFile, template, executor, tstate, tres, cursor,
                   pending, maxRetries, attempt, sleeps, stopPc, stopAt, calls,
                   merged, run, end1, resolvedAt, built>>

\* ------------------------------------------------------------ submit phase
\* run_with_status_monitoring(skip_update_phase=False) entering run_updates,
\* line 296: the pool of the phase is created
RunUpdatesStart ==
    /\ pc = "ready"
    /\ pc' = "sub_dispatch"
    /\ executor' = "open"
    /\ cursor' = 0
    /\ UNCHANGED <<apiVars, paths, lock, mode, source, outFile, template, df, running, tstate, tres,
                   pending, maxRetries, attempt, sleeps, stopPc, stopAt, calls,
                   merged, df0, run, end1, resolvedAt, built>>

\* line 297, one iteration: executor.submit raises RuntimeError once the pool
\* has been shut down, and the exception leaves run_updates
SubmitDispatch ==
    /\ pc = "sub_dispatch"
    /\ IF cursor = Len(df.rows)
       THEN /\ pc' = "sub_collect"
            /\ UNCHANGED <<tstate, cursor>>
       ELSE IF executor = "shut"
       THEN /\ pc' = "raised"
            /\ UNCHANGED <<tstate, cursor>>
       ELSE /\ tstate' = [tstate EXCEPT ![cursor + 1] = "queued"]
            /\ cursor' = cursor + 1
            /\ pc' = pc
    /\ UNCHANGED <<apiVars, paths, lock, mode, source, outFile, template, df, running, executor, tres,
                   pending, maxRetries, attempt, sleeps, stopPc, stopAt, calls,
                   merged, df0, run, end1, resolvedAt, built>>

\* a worker starts _update_row for a queued row (lines 272-280); the row it
\* was given is the row of the dataset, which nothing changes before its own
\* result is merged
UpdateRowStart(i) ==
    /\ tstate[i] = "queued"
    /\ CanStart(i)
    /\ LET r == RowEntry(running, df.rows[i])
       IN IF r.status = "go"
          THEN /\ tstate' = [tstate EXCEPT ![i] = "search"]
               /\ tres' = tres
          ELSE /\ tstate' = [tstate EXCEPT ![i] = "done"]
               /\ tres' = [tres EXCEPT ![i] = r]
    /\ UNCHANGED <<apiVars, paths, lock, mode, source, outFile, template, pc, df, running, executor,
                   cursor, pending, maxRetries, attempt, sleeps, stopPc, stopAt,
                   calls, merged, df0, run, end1, resolvedAt, built>>

\* search_product answers resp and the payload is built (lines 281-282)
SearchReturns(i, resp) ==
    /\ tstate[i] = "search"
    /\ LET r == AfterSearch(mode, template, df.rows[i], resp)
       IN IF r.status = "go"
          THEN /\ tstate' = [tstate EXCEPT ![i] = "submit"]
               /\ tres' = tres
          ELSE /\ tstate' = [tstate EXCEPT ![i] = "done"]
               /\ tres' = [tres EXCEPT ![i] = r]
    /\ calls' = [calls EXCEPT ![i].search = @ + 1]
    /\ UNCHANGED <<apiVars, paths, lock, mode, source, outFile, template, pc, df, running, executor,
                   cursor, pending, maxRetries, attempt, sleeps, stopPc, stopAt,
                   merged, df0, run, end1, resolvedAt, built>>

UpdateRowSearch(i) == \E resp \in SearchResponses : SearchReturns(i, resp)

\* update_product answers resp or fails (lines 283-292)
SubmitReturns(i, resp) ==
    /\ tstate[i] = "submit"
    /\ tstate' = [tstate EXCEPT ![i] = "done"]
    /\ tres' = [tres EXCEPT ![i] = AfterSubmit(resp)]
    /\ calls' = [calls EXCEPT ![i].submit = @ + 1]
    /\ UNCHANGED <<apiVars, paths, lock, mode, source, outFile, template, pc, df, running, executor,
                   cursor, pending, maxRetries, attempt, sleeps, stopPc, stopAt,
                   merged, df0, run, end1, resolvedAt, built>>

UpdateRowSubmit(i) == \E resp \in SubmitResponses : SubmitReturns(i, resp)

\* with self.lock: the lock is taken if it is free; a thread asking for a
\* lock that is held waits
NotTaken_Acquired(l) == l
Acquired(l) == "main"

\* lines 298-303 and 315, one iteration of the as_completed loop: a skipped
\* result is passed over, for any other result the lock is taken.  When every
\* future has been taken the loop ends and the pool, idle by now, is shut
\* down (line 315)
SubmitCollect ==
    /\ pc = "sub_collect"
    /\ IF \A i \in Rows : tstate[i] = "collected"
       THEN /\ pc' = "sub_clear"
            /\ executor' = "shut"
            /\ UNCHANGED <<tstate, tres, lock>>
       ELSE \E i \in Rows :
            /\ tstate[i] = "done"
            /\ executor' = executor
            /\ IF tres[i].skip
               THEN /\ tstate' = [tstate EXCEPT ![i] = "collected"]
                    /\ tres' = [tres EXCEPT ![i] = SkipResult]
                    /\ UNCHANGED <<pc, lock>>
               ELSE /\ lock = "free"
                    /\ lock' = Acquired(lock)
                    /\ tstate' = [tstate EXCEPT ![i] = "merging"]
                    /\ tres' = tres
                    /\ pc' = "sub_merge"
    /\ UNCHANGED <<apiVars, paths, mode, source, outFile, template, df, running, cursor,
                   pending, maxRetries, attempt, sleeps, stopPc, stopAt, calls,
                   merged, df0, run, end1, resolvedAt, built>>

\* lines 304-309: the write-back of the result, and the lock is released
SubmitMerge ==
    /\ pc = "sub_merge"
    /\ \E i \in Rows :
         /\ tstate[i] = "merging"
         /\ df' = [df EXCEPT !.rows[i] = MergeSubmit(@, tres[i])]
         /\ merged' = merged \cup {i}
         /\ tstate' = [tstate EXCEPT ![i] = "collected"]
         /\ tres' = [tres EXCEPT ![i] = SkipResult]
    /\ lock' = "free"
    /\ pc' = "sub_collect"
    /\ UNCHANGED <<apiVars, paths, mode, source, outFile, template, running, executor, cursor,
                   pending, maxRetries, attempt, sleeps, stopPc, stopAt, calls,
                   df0, run, end1, resolvedAt, built>>

\* line 316: self._executor = None
SubmitClear ==
    /\ pc = "sub_clear"
    /\ pc' = "sub_save"
    /\ executor' = "none"
    /\ UNCHANGED <<apiVars, paths, lock, mode, source, outFile, template, df, running, tstate, tres, cursor,
                   pending, maxRetries, attempt, sleeps, stopPc, stopAt, calls,
                   merged, df0, run, end1, resolvedAt, built>>

\* _save: df.to_excel(output_file, index=False) under the lock
_save == ToExcel(df)

\* line 317: _save is called and takes the lock (line 403)
SubmitSave ==
    /\ pc = "sub_save"
    /\ lock = "free"
    /\ lock' = Acquired(lock)
    /\ pc' = "sub_write"
    /\ UNCHANGED <<apiVars, paths, mode, source, outFile, template, df, running, executor, tstate,
                   tres, cursor, pending, maxRetries, attempt, sleeps, stopPc, stopAt,
                   calls, merged, df0, run, end1, resolvedAt, built>>

\* lines 404-405: the snapshot is written and the lock released; run_updates
\* returns to run_with_status_monitoring
SubmitWrite ==
    /\ pc = "sub_write"
    /\ outFile' = _save
    /\ source' = IF paths.output_file = paths.source_file THEN _save ELSE source
    /\ lock' = "free"
    /\ pc' = "poll_enter"
    /\ UNCHANGED <<apiVars, paths, mode, template, df, running, executor, tstate, tres, cursor,
                   pending, maxRetries, attempt, sleeps, stopPc, stopAt, calls,
                   merged, df0, run, end1, resolvedAt, built>>

\* -------------------------------------------------------------------- stop
\* the part of the run the orchestrator is in
StopPhase(p) ==
    IF p \in {"sub_dispatch", "sub_collect", "sub_merge", "sub_clear", "sub_save", "sub_write"}
    THEN "submit"
    ELSE IF p \in {"poll_dispatch", "poll_collect", "poll_merge", "poll_clear", "poll_save",
                   "poll_write"}
    THEN "round"
    ELSE "between"

\* stop(), line 260
StopFlag ==
    /\ stopPc = "idle"
    /\ pc \notin {"new", "ctor_raised", "done", "raised"}
    /\ running' = FALSE
    /\ stopPc' = "flagged"
    /\ stopAt' = StopPhase(pc)
    /\ UNCHANGED <<apiVars, paths, lock, mode, source, outFile, template, pc, df, executor, tstate, tres,
                   cursor, pending, maxRetries, attempt, sleeps, calls, merged, df0,
                   run, end1, resolvedAt, built>>

\* stop(), line 261: if self._executor
StopCheck ==
    /\ stopPc = "flagged"
    /\ stopPc' = IF executor = "none" THEN "done" ELSE "checked"
    /\ UNCHANGED <<apiVars, paths, lock, mode, source, outFile, template, pc, df, running, executor, tstate,
                   tres, cursor, pending, maxRetries, attempt, sleeps, stopAt, calls,
                   merged, df0, run, end1, resolvedAt, built>>

\* stop(), line 262: self._executor is read again; it is None by now if the
\* orchestrator cleared it in between, and None.shutdown raises AttributeError
StopShutdown ==
    /\ stopPc = "checked"
    /\ IF executor = "none"
       THEN /\ stopPc' = "raised"
            /\ executor' = executor
       ELSE /\ stopPc' = "done"
            /\ executor' = "shut"
    /\ UNCHANGED <<apiVars, paths, lock, mode, source, outFile, template, pc, df, running, tstate, tres,
                   cursor, pending, maxRetries, attempt, sleeps, stopAt, calls,
                   merged, df0, run, end1, resolvedAt, built>>

\* ---------------------------------------------------------------- polling
\* run_with_status_monitoring, line 400: poll(max_retries, retry_interval) is
\* called, after run_updates or at once with skip_update_phase=True
PollEnter ==
    /\ pc \in {"poll_enter", "ready"}
    /\ pc' = "poll_top"
    /\ \E mr \in {{}} \cup {{n} : n \in 0..(MaxRounds - 1)} : maxRetries' = mr
    /\ attempt' = 0
    /\ UNCHANGED <<apiVars, paths, lock, mode, source, outFile, template, df, running, executor, tstate, tres,
                   cursor, pending, sleeps, stopPc, stopAt, calls, merged, df0,
                   run, end1, resolvedAt, built>>

\* line 358: the rows whose status is "updating"
Updating(fr) == {i \in 1..Len(fr.rows) : Lower(fr.rows[i]["status"]) = STATUS_UPDATING}

\* the budget test of line 363
OffByOne_BudgetSpent(mr, n) == \E m \in mr : n > m
BudgetSpent(mr, n) == \E m \in mr : n >= m

\* lines 354-368: the head of the poll loop, up to the creation of the pool
PollTop ==
    /\ pc = "poll_top"
    /\ IF Cancelled(running) \/ Updating(df) = {} \/ BudgetSpent(maxRetries, attempt)
       THEN /\ pc' = "done"
            /\ UNCHANGED <<attempt, executor, pending, cursor, tstate>>
       ELSE /\ attempt < MaxRounds
            /\ pc' = "poll_dispatch"
            /\ attempt' = attempt + 1
            /\ executor' = "open"
            /\ pending' = Updating(df)
            /\ cursor' = 0
            /\ tstate' = [i \in Rows |-> "none"]
    /\ UNCHANGED <<apiVars, paths, lock, mode, source, outFile, template, df, running, tres, maxRetries,
                   sleeps, stopPc, stopAt, calls, merged, df0, run, end1, resolvedAt, built>>

\* line 369, one iteration: as in the submit phase, submit raises on a pool
\* that was shut down
PollDispatch ==
    /\ pc = "poll_dispatch"
    /\ LET left == {i \in pending : tstate[i] = "none"}
       IN IF left = {}
          THEN /\ pc' = "poll_collect"
               /\ UNCHANGED <<tstate, cursor>>
          ELSE IF executor = "shut"
          THEN /\ pc' = "raised"
               /\ UNCHANGED <<tstate, cursor>>
          ELSE LET i == CHOOSE x \in left : \A y \in left : x <= y
               IN /\ tstate' = [tstate EXCEPT ![i] = "pqueued"]
                  /\ cursor' = cursor + 1
                  /\ pc' = pc
    /\ UNCHANGED <<apiVars, paths, lock, mode, source, outFile, template, df, running, executor, tres,
                   pending, maxRetries, attempt, sleeps, stopPc, stopAt, calls,
                   merged, df0, run, end1, resolvedAt, built>>

RaisedResult(msg) == [skip |-> FALSE, status |-> "raise", record_id |-> "", error_message |-> msg]

\* _status_row, lines 321-328: before the remote call.  record_id is read
\* outside the try, so .strip() on a NaN record_id raises out of the function
StatusEntry(isRunning, row) ==
    IF Cancelled(isRunning) THEN SkipResult
    ELSE IF Lower(row["status"]) # STATUS_UPDATING THEN SkipResult
    ELSE IF row["record_id"] = NaN THEN RaisedResult(AttrErrStrip)
    ELSE IF Strip(row["record_id"]) = "" THEN Result(STATUS_FAILED, "", "Missing record_id")
    ELSE [skip |-> FALSE, status |-> "go", record_id |-> "", error_message |-> ""]

StatusResponses == {"success", "fail", "failed", "updating", "processing", "empty", "error"}

\* " | ".join(msgs), line 344
RECURSIVE Join(_, _)
Join(msgs, sep) ==
    IF msgs = <<>> THEN ""
    ELSE IF Len(msgs) = 1 THEN msgs[1]
    ELSE msgs[1] \o sep \o Join(Tail(msgs), sep)

\* lines 338-343: the errorMessage of the rows of the record that have one
RECURSIVE Messages(_)
Messages(rows) ==
    IF rows = <<>> THEN <<>>
    ELSE IF rows[1] = "" THEN Messages(Tail(rows))
    ELSE <<rows[1]>> \o Messages(Tail(rows))

\* the errorMessage of the rows of a status record: a "fail" record carries
\* two messages and a row without one, a "failed" record no row
StatusRows(resp) == IF resp = "fail" THEN <<"e1", "", "e2">> ELSE <<>>

\* line 344
FailMessage(rows) ==
    IF Messages(rows) = <<>> THEN "Update failed" ELSE Join(Messages(rows), " | ")

\* _status_row, lines 329-350: the response of get_update_status mapped to
\* the result
FailOnUnknown_AfterStatus(resp) ==
    CASE resp = "success" -> Result(STATUS_SUCCESS, "", "")
      [] resp \in {"fail", "failed"} -> Result(STATUS_FAILED, "", FailMessage(StatusRows(resp)))
      [] resp = "updating" -> Result(STATUS_UPDATING, "", "")
      [] resp = "empty" -> Result(STATUS_FAILED, "", "Empty status response")
      [] resp = "error" -> Result(STATUS_FAILED, "", RequestFailed)
      [] OTHER -> Result(STATUS_FAILED, "", "Update failed")
AfterStatus(resp) ==
    CASE resp = "success" -> Result(STATUS_SUCCESS, "", "")
      [] resp \in {"fail", "failed"} -> Result(STATUS_FAILED, "", FailMessage(StatusRows(resp)))
      [] resp = "updating" -> Result(STATUS_UPDATING, "", "")
      [] resp = "empty" -> Result(STATUS_FAILED, "", "Empty status response")
      [] resp = "error" -> Result(STATUS_FAILED, "", RequestFailed)
      [] OTHER -> Result(STATUS_UPDATING, "", "")

\* a worker starts _status_row for a queued row
StatusRowStart(i) ==
    /\ tstate[i] = "pqueued"
    /\ CanStart(i)
    /\ LET r == StatusEntry(running, df.rows[i])
       IN IF r.status = "go"
          THEN /\ tstate' = [tstate EXCEPT ![i] = "status"]
               /\ tres' = tres
          ELSE /\ tstate' = [tstate EXCEPT ![i] = "done"]
               /\ tres' = [tres EXCEPT ![i] = r]
    /\ UNCHANGED <<apiVars, paths, lock, mode, source, outFile, template, pc, df, running, executor,
                   cursor, pending, maxRetries, attempt, sleeps, stopPc, stopAt,
                   calls, merged, df0, run, end1, resolvedAt, built>>

\* get_update_status answers resp or fails
StatusReturns(i, resp) ==
    /\ tstate[i] = "status"
    /\ tstate' = [tstate EXCEPT ![i] = "done"]
    /\ tres' = [tres EXCEPT ![i] = AfterStatus(resp)]
    /\ calls' = [calls EXCEPT ![i].status = @ + 1]
    /\ UNCHANGED <<apiVars, paths, lock, mode, source, outFile, template, pc, df, running, executor,
                   cursor, pending, maxRetries, attempt, sleeps, stopPc, stopAt,
                   merged, df0, run, end1, resolvedAt, built>>

StatusRowFetch(i) == \E resp \in StatusResponses : StatusReturns(i, resp)

\* poll, lines 375-378: the write-back of one status result
MergeStatus(row, r) ==
    [c \in DOMAIN row |->
        IF c = "status" THEN r.status
        ELSE IF c = "error_message" /\ r.error_message # "" THEN r.error_message
        ELSE row[c]]

\* line 370: the as_completed loop ends when it has yielded every future
AnyTaken_LoopEnds(ts, futures) == \E i \in futures : ts[i] = "collected"
LoopEnds(ts, futures) == \A i \in futures : ts[i] = "collected"

\* lines 370-375 and 385, one iteration of the as_completed loop; f.result()
\* raises what _status_row raised, a skipped result is passed over, and for
\* any other result the lock is taken.  When every future has been taken the
\* loop ends and the pool, idle by now, is shut down (line 385)
PollCollect ==
    /\ pc = "poll_collect"
    /\ IF LoopEnds(tstate, pending)
       THEN /\ pc' = "poll_clear"
            /\ executor' = "shut"
            /\ UNCHANGED <<tstate, tres, lock>>
       ELSE \E i \in pending :
            /\ tstate[i] = "done"
            /\ executor' = executor
            /\ IF tres[i].status = "raise"
               THEN /\ pc' = "raised"
                    /\ tstate' = [tstate EXCEPT ![i] = "collected"]
                    /\ tres' = [tres EXCEPT ![i] = SkipResult]
                    /\ lock' = lock
               ELSE IF tres[i].skip
               THEN /\ tstate' = [tstate EXCEPT ![i] = "collected"]
                    /\ tres' = [tres EXCEPT ![i] = SkipResult]
                    /\ UNCHANGED <<pc, lock>>
               ELSE /\ lock = "free"
                    /\ lock' = Acquired(lock)
                    /\ tstate' = [tstate EXCEPT ![i] = "merging"]
                    /\ tres' = tres
                    /\ pc' = "poll_merge"
    /\ UNCHANGED <<apiVars, paths, mode, source, outFile, template, df, running, cursor,
                   pending, maxRetries, attempt, sleeps, stopPc, stopAt, calls,
                   merged, df0, run, end1, resolvedAt, built>>

\* lines 376-378: the write-back of the result, and the lock is released
PollMerge ==
    /\ pc = "poll_merge"
    /\ \E i \in pending :
         /\ tstate[i] = "merging"
         /\ df' = [df EXCEPT !.rows[i] = MergeStatus(@, tres[i])]
         /\ tstate' = [tstate EXCEPT ![i] = "collected"]
         /\ tres' = [tres EXCEPT ![i] = SkipResult]
    /\ resolvedAt' = IF Updating(df) # {} /\ Updating(df') = {} THEN attempt ELSE resolvedAt
    /\ lock' = "free"
    /\ pc' = "poll_collect"
    /\ UNCHANGED <<apiVars, paths, mode, source, outFile, template, running, executor, cursor,
                   pending, maxRetries, attempt, sleeps, stopPc, stopAt, calls,
                   merged, df0, run, end1, built>>

\* line 386
PollClear ==
    /\ pc = "poll_clear"
    /\ pc' = "poll_save"
    /\ executor' = "none"
    /\ UNCHANGED <<apiVars, paths, lock, mode, source, outFile, template, df, running, tstate, tres, cursor,
                   pending, maxRetries, attempt, sleeps, stopPc, stopAt, calls,
                   merged, df0, run, end1, resolvedAt, built>>

\* lines 388-392: after the snapshot the loop ends if no row is updating any
\* more, and sleeps otherwise
AlwaysSleep_AfterRound(fr) == "poll_sleep"
AfterRound(fr) == IF Updating(fr) = {} THEN "done" ELSE "poll_sleep"

\* line 387: _save is called and takes the lock (line 403)
PollSave ==
    /\ pc = "poll_save"
    /\ lock = "free"
    /\ lock' = Acquired(lock)
    /\ pc' = "poll_write"
    /\ UNCHANGED <<apiVars, paths, mode, source, outFile, template, df, running, executor, tstate,
                   tres, cursor, pending, maxRetries, attempt, sleeps, stopPc, stopAt,
                   calls, merged, df0, run, end1, resolvedAt, built>>

\* lines 404-405 and 388-390: the snapshot of the round is written and the
\* lock released, then the test of line 388
PollWrite ==
    /\ pc = "poll_write"
    /\ outFile' = _save
    /\ source' = IF paths.output_file = paths.source_file THEN _save ELSE source
    /\ lock' = "free"
    /\ pc' = AfterRound(df)
    /\ UNCHANGED <<apiVars, paths, mode, template, df, running, executor, tstate, tres, cursor,
                   pending, maxRetries, attempt, sleeps, stopPc, stopAt, calls,
                   merged, df0, run, end1, resolvedAt, built>>

\* line 392: time.sleep(retry_interval), then the next turn of the loop
PollSleep ==
    /\ pc = "poll_sleep"
    /\ pc' = "poll_top"
    /\ sleeps' = sleeps + 1
    /\ UNCHANGED <<apiVars, paths, lock, mode, source, outFile, template, df, running, executor, tstate, tres,
                   cursor, pending, maxRetries, attempt, stopPc, stopAt, calls,
                   merged, df0, run, end1, resolvedAt, built>>

\* ------------------------------------------------------------ second run
\* a second orchestrator is made for the same source file once the first has
\* returned and its result file exists; __init__ then runs as Construct
Rerun ==
    /\ run = 1
    /\ pc = "done"
    /\ outFile.exists
    /\ run' = 2
    /\ end1' = df
    /\ pc' = "new"
    /\ running' = TRUE
    /\ executor' = "none"
    /\ tstate' = [i \in Rows |-> "none"]
    /\ tres' = [i \in Rows |-> SkipResult]
    /\ cursor' = 0
    /\ pending' = {}
    /\ maxRetries' = {}
    /\ attempt' = 0
    /\ sleeps' = 0
    /\ stopPc' = "idle"
    /\ stopAt' = ""
    /\ calls' = [i \in Rows |-> NoCalls]
    /\ merged' = {}
    /\ resolvedAt' = 0
    /\ UNCHANGED <<apiVars, paths, lock, mode, source, outFile, template, df, df0, built>>

\* ------------------------------------------------- building one payload
HktvKeys == {"warehouse_id", "external_platform", "primary_category_code"}

HktvDefault(k) ==
    IF k = "external_platform" THEN [source |-> <<>>, product_id |-> "", sku_id |-> ""]
    ELSE ""

Templates ==
    {[product |-> TRUE, additional |-> TRUE, top |-> [name |-> ""],
      hktv |-> [k \in K |-> HktvDefault(k)]] : K \in SUBSET HktvKeys}
      \cup {[product |-> TRUE, additional |-> FALSE, top |-> [name |-> ""],
             hktv |-> [k \in {} |-> ""]]}

RecordKeys == {"warehouse_id", "external_platform", "primary_category"}

RecordValue(k) ==
    CASE k = "external_platform" -> [source |-> <<"old">>, product_id |-> "p0", sku_id |-> "s0"]
      [] k = "warehouse_id" -> "w0"
      [] OTHER -> "c1"

SearchRecords ==
    {[top |-> [name |-> "n1"], hktv |-> [k \in K |-> RecordValue(k)]] : K \in SUBSET RecordKeys}

\* self._payload(row, search_res) for a row of the dataset and a search
\* result with one record
BuildRow(i) ==
    /\ pc = "ready"
    /\ built[i] = <<>>
    /\ \E rec \in SearchRecords :
         /\ BuildRaises(template, <<rec>>) = ""
         /\ built' = [built EXCEPT ![i] = <<Payload(mode, template, df.rows[i], <<rec>>)>>]
    /\ UNCHANGED <<apiVars, paths, lock, mode, source, outFile, template, pc, df, running, executor, tstate,
                   tres, cursor, pending, maxRetries, attempt, sleeps, stopPc, stopAt,
                   calls, merged, df0, run, end1, resolvedAt>>

\* -------------------------------------------------- inputs of the other
\* specifications
\* sources whose rows a previous run has left updating, done or untouched
PollRows(m) ==
    {SrcRow(m, "a", "t1", <<NaN, NaN, NaN>>),
     SrcRow(m, "b", "t1", <<"SUCCESS", "r9", NaN>>),
     SrcRow(m, "b", "t1", <<"Updating", "r9", NaN>>),
     SrcRow(m, "b", "t1", <<"updating", " ", NaN>>),
     SrcRow(m, "b", "t1", <<"updating", NaN, NaN>>)}

InitPoll ==
    /\ mode \in Modes
    /\ source \in {File(SrcCols(mode, TRUE), rows) : rows \in [Rows -> PollRows(mode)]}
    /\ outFile = NoFile
    /\ template = DefaultTemplate
    /\ InitCommon
    /\ lock = "free"
    /\ paths = [source_file |-> DefaultPath, output_file |-> <<>>]
    /\ ApiIdle

\* sources and previous result files of the resume merge
LoadSources(m) ==
    {File(SrcCols(m, FALSE), rows) :
        rows \in [Rows -> {SrcRow(m, sku, "t1", <<>>) : sku \in {"a", "b", NaN}}]}
      \cup {File(SrcCols(m, TRUE), rows) :
              rows \in [Rows -> {SrcRow(m, sku, "t1", tr) :
                                   sku \in {"a", "b", NaN},
                                   tr \in {<<NaN, NaN, NaN>>, <<"failed", NaN, "e0">>}}]}

PrevRow(m, sku, tr) ==
    (Lower(Strip(SkuHeader(m))) :> sku) @@ (TargetHeader(m) :> "t1")
      @@ ("status" :> tr[1]) @@ ("record_id" :> tr[2]) @@ ("error_message" :> tr[3])

LoadPrevs(m) ==
    {NoFile}
      \cup {File(Required(m) \cup Tracked, rows) :
              rows \in [Rows -> {PrevRow(m, sku, tr) :
                                   sku \in {"a", "Ha", "b"},
                                   tr \in {<<"success", "r1", NaN>>, <<NaN, NaN, NaN>>}}]}

InitLoad ==
    /\ mode \in Modes
    /\ source \in LoadSources(mode)
    /\ outFile \in LoadPrevs(mode)
    /\ template = DefaultTemplate
    /\ InitCommon
    /\ lock = "free"
    /\ paths = [source_file |-> DefaultPath, output_file |-> <<>>]
    /\ ApiIdle

\* sources of the payload specification: the target cell empty, plain, or a
\* warehouse name of the replacement dictionary
InitBuild ==
    /\ mode \in Modes
    /\ source \in {File(SrcCols(mode, FALSE), rows) :
                     rows \in [Rows -> {SrcRow(mode, "a", t, <<>>) : t \in {NaN, "t1", "W-name"}}]}
    /\ outFile = NoFile
    /\ template \in Templates
    /\ InitCommon
    /\ lock = "free"
    /\ paths = [source_file |-> DefaultPath, output_file |-> <<>>]
    /\ ApiIdle

\* ------------------------------------------- the steps of the API client
\* refresh(), lines 83-85 and 90: the login request and its answer.  A login
\* the server answers with 200 issues the next token; any other answer
\* raises, out of __init__ or into the except clause of _request
Login(t, code) ==
    /\ th[t].pc = "login"
    /\ IF code = "200"
       THEN /\ Len(logins) < MaxLogins
            /\ logins' = Append(logins, clock)
            /\ th' = [th EXCEPT ![t].pc = "wtoken", ![t].got = Len(logins) + 1,
                                ![t].chk.posts = IF th[t].ctx = "get" THEN @ + 1 ELSE @]
            /\ api' = api
       ELSE /\ logins' = logins
            /\ th' = [th EXCEPT ![t].pc = IF th[t].ctx = "init" THEN "ctor_raised" ELSE "except",
                                ![t].err = LoginFailed(code),
                                ![t].chk.posts = IF th[t].ctx = "get" THEN @ + 1 ELSE @]
            /\ api' = IF th[t].ctx = "init" THEN [api EXCEPT !.state = "raised"] ELSE api
    /\ UNCHANGED <<runVars, clock, tok>>

RefreshLogin(t) == \E code \in LoginCodes : Login(t, code)

\* refresh(), line 86
RefreshToken(t) ==
    /\ th[t].pc = "wtoken"
    /\ tok' = [tok EXCEPT !.token = th[t].got]
    /\ th' = [th EXCEPT ![t].pc = "wexpiry"]
    /\ UNCHANGED <<runVars, clock, api, logins>>

\* refresh(), line 87, and the return to its caller: __init__, get(), or
\* line 121, which raises
RefreshExpiry(t) ==
    /\ th[t].pc = "wexpiry"
    /\ tok' = [tok EXCEPT !.expAt = clock + TOKEN_TTL, !.expLogin = th[t].got]
    /\ CASE th[t].ctx = "init" ->
              /\ th' = [th EXCEPT ![t].pc = "idle", ![t].ctx = ""]
              /\ api' = [api EXCEPT !.state = "ready"]
         [] th[t].ctx = "get" ->
              /\ th' = [th EXCEPT ![t].pc = "ret"]
              /\ api' = api
         [] OTHER ->
              /\ th' = [th EXCEPT ![t].pc = "except", ![t].err = Unauthorized,
                                  ![t].after401 = th[t].got]
              /\ api' = api
    /\ UNCHANGED <<runVars, clock, logins>>

\* _request is called, lines 111-112
RequestStart(t) ==
    /\ th[t].pc = "idle"
    /\ api.state = "ready"
    /\ th' = [th EXCEPT ![t].pc = "get", ![t].attempt = 0, ![t].delay = INITIAL_DELAY]
    /\ UNCHANGED <<runVars, clock, api, tok, logins>>

\* headers() calls get(), line 93
GetCheck(t) ==
    /\ th[t].pc = "get"
    /\ LET must == MustLogin(tok, clock)
       IN th' = [th EXCEPT ![t].pc = IF must THEN "login" ELSE "ret",
                           ![t].ctx = "get",
                           ![t].chk = [token |-> tok.token, expAt |-> tok.expAt,
                                       expLogin |-> tok.expLogin, now |-> clock,
                                       login |-> must, posts |-> 0]]
    /\ UNCHANGED <<runVars, clock, api, tok, logins>>

\* get() returns self.token, line 95, and the request is sent with it
\* (lines 116, 118)
GetReturn(t) ==
    /\ th[t].pc = "ret"
    /\ th' = [th EXCEPT ![t].pc = "wait",
                        ![t].sends = @ + 1,
                        ![t].sent = tok.token,
                        ![t].need = th[t].after401,
                        ![t].after401 = 0]
    /\ UNCHANGED <<runVars, clock, api, tok, logins>>

\* the answer to the request, lines 119-124
Receive(t, code) ==
    /\ th[t].pc = "wait"
    /\ th' = [th EXCEPT ![t].pc = CASE code = "200" -> "returned"
                                     [] code = "401" -> "login"
                                     [] OTHER -> "except",
                        ![t].ctx = IF code = "401" THEN "401" ELSE @,
                        ![t].err = IF code \in {"200", "401"} THEN @ ELSE ResponseFailed(code)]
    /\ UNCHANGED <<runVars, clock, api, tok, logins>>

RequestAnswer(t) == \E code \in ResponseCodes : Receive(t, code)

\* the test of line 127
RetryAlways_Exhausted(n, max) == FALSE
Exhausted(n, max) == n >= max

\* line 130
NextDelay(delay, backoff) == (delay * backoff) \div 1000

\* the except clause, lines 125-130
RequestExcept(t) ==
    /\ th[t].pc = "except"
    /\ th[t].attempt < MaxApiRetries
    /\ IF Exhausted(th[t].attempt + 1, api.max_retries)
       THEN th' = [th EXCEPT ![t].pc = "failed", ![t].attempt = @ + 1]
       ELSE th' = [th EXCEPT ![t].pc = "get", ![t].attempt = @ + 1,
                             ![t].slept = Append(@, th[t].delay),
                             ![t].delay = NextDelay(@, api.backoff)]
    /\ UNCHANGED <<runVars, clock, api, tok, logins>>

\* time passes; lines 84-87 take no time at this scale
Tick ==
    /\ clock < MaxTicks * TICK
    /\ \A t \in Threads : th[t].pc \notin {"wtoken", "wexpiry"}
    /\ api.state # "raised"
    /\ clock' = clock + TICK
    /\ UNCHANGED <<runVars, api, tok, logins, th>>

ClientStep(t) ==
    \/ RefreshLogin(t)
    \/ RefreshToken(t)
    \/ RefreshExpiry(t)
    \/ RequestStart(t)
    \/ GetCheck(t)
    \/ GetReturn(t)
    \/ RequestAnswer(t)
    \/ RequestExcept(t)

\* the orchestrator of the client specifications is not running
InitClient ==
    /\ mode = "taobao"
    /\ source = NoFile
    /\ outFile = NoFile
    /\ template = DefaultTemplate
    /\ InitCommon
    /\ lock = "free"
    /\ paths = [source_file |-> DefaultPath, output_file |-> <<>>]
    /\ InitApi

\* ----------------------------------------------------------- specification
StopActions == StopFlag \/ StopCheck \/ StopShutdown

SubmitActions ==
    \/ RunUpdatesStart
    \/ SubmitDispatch
    \/ \E i \in Rows : UpdateRowStart(i)
    \/ \E i \in Rows : UpdateRowSearch(i)
    \/ \E i \in Rows : UpdateRowSubmit(i)
    \/ SubmitCollect
    \/ SubmitMerge
    \/ SubmitClear
    \/ SubmitSave
    \/ SubmitWrite

PollActions ==
    \/ PollEnter
    \/ PollTop
    \/ PollDispatch
    \/ \E i \in Rows : StatusRowStart(i)
    \/ \E i \in Rows : StatusRowFetch(i)
    \/ PollCollect
    \/ PollMerge
    \/ PollClear
    \/ PollSave
    \/ PollWrite
    \/ PollSleep

\* a whole run: construction, run_with_status_monitoring, and stop() at any time
Next == Construct \/ SubmitActions \/ PollActions \/ StopActions

Spec == Init /\ [][Next]_vars

\* run_updates alone, up to its return
NextSubmit == Construct \/ SubmitActions \/ StopActions

SpecSubmit == Init /\ [][NextSubmit]_vars

\* a whole run with stop() at any time, for one mode: a new sheet whose rows
\* are all to submit, or a sheet a previous run has written, its first row
\* failed and the others in updating
CancelRow(i) ==
    IF i = 1 THEN SrcRow("taobao", "b", "t1", <<"failed", NaN, "e0">>)
    ELSE SrcRow("taobao", "b", "t1", <<"updating", "r9", NaN>>)

CancelSources ==
    {File(SrcCols("taobao", FALSE), [i \in Rows |-> SrcRow("taobao", "a", "t1", <<>>)]),
     File(SrcCols("taobao", TRUE), [i \in Rows |-> CancelRow(i)])}

InitCancel ==
    /\ mode = "taobao"
    /\ source \in CancelSources
    /\ outFile = NoFile
    /\ template = DefaultTemplate
    /\ InitCommon
    /\ lock = "free"
    /\ paths = [source_file |-> DefaultPath, output_file |-> <<>>]
    /\ ApiIdle

SpecCancel == InitCancel /\ [][Next]_vars

\* poll alone, entered with skip_update_phase=True on a resumed dataset
NextPoll == Construct \/ PollActions \/ StopActions

SpecPoll == InitPoll /\ [][NextPoll]_vars

\* construction alone, over sources and previous result files
SpecLoad == InitLoad /\ [][Construct]_vars

\* construction and the payload builder
NextBuild == Construct \/ \E i \in Rows : BuildRow(i)

SpecBuild == InitBuild /\ [][NextBuild]_vars

\* two runs one after the other on the same source file
NextRerun == Next \/ Rerun

SpecRerun == Init /\ [][NextRerun]_vars

\* a whole run that is not cancelled
NextRun == Construct \/ SubmitActions \/ PollActions

SpecRun == Init /\ [][NextRun]_vars

\* The same run for each input path the window accepts.  The file at the
\* output path is the source file itself when the two paths are one.
SourcePaths ==
    { <<"a">> \o DotXlsx, <<"a">> \o DotXls, <<"a", ".", "X", "L", "S", "X">>,
      <<"a", ".", "c", "s", "v">> }

AcceptedPaths == {path \in SourcePaths : Accepted(path)}

InitPaths ==
    /\ mode \in Modes
    /\ source \in RunSources(mode)
    /\ paths \in [source_file : AcceptedPaths, output_file : {<<>>}]
    /\ outFile = IF OutputFile(paths.source_file) = paths.source_file THEN source ELSE NoFile
    /\ template = DefaultTemplate
    /\ InitCommon
    /\ lock = "free"
    /\ ApiIdle

SpecPaths == InitPaths /\ [][NextRun]_vars

\* one thread using the client: its construction, then one API call
NextRequest == ClientStep(1) \/ Tick

SpecRequest == InitClient /\ [][NextRequest]_vars /\ WF_vars(ClientStep(1))

\* the client shared by the threads of the worker pool, one API call each,
\* within the life of the first token
NextShared == \E t \in Threads : ClientStep(t)

SpecShared == InitClient /\ [][NextShared]_vars

\* ------------------------------------------------------------------ claims
TrackedCells(row) == <<row["status"], row["record_id"], row["error_message"]>>

Constructed == pc \notin {"new", "ctor_raised"}

Blank(v) == v \in {"", NaN}

SameCell(a, b) == a = b \/ (Blank(a) /\ Blank(b))

\* C1: in the submit phase, once stop() has set the cancellation flag no
\* result is written back any more: the dataset stays as it was when the flag
\* was set, so only the rows merged before the flag are recorded.
C1_DiscardedAfterStop == [][~running => df' = df]_vars

\* C2: a row whose status at load time is success, failed or updating in any
\* letter case gets no search and no submit call in the submit phase, and its
\* status, record_id and error_message stay as loaded.
C2_SkippedRowsUntouched ==
    Constructed =>
        \A i \in Rows :
            Lower(df0.rows[i]["status"]) \in {STATUS_SUCCESS, STATUS_FAILED, STATUS_UPDATING}
            => /\ calls[i].search = 0
               /\ calls[i].submit = 0
               /\ TrackedCells(df.rows[i]) = TrackedCells(df0.rows[i])

\* the submit phase has returned, without cancellation, over a row loaded as
\* "SUCCESS" and another row whose result was written back
C2_Witness ==
    /\ pc = "poll_enter"
    /\ stopPc = "idle"
    /\ \E i, j \in Rows :
         /\ df0.rows[i]["status"] = "SUCCESS"
         /\ tstate[i] = "collected"
         /\ j \in merged

\* C3: a row with an empty identifier whose status is neither terminal nor
\* updating gets no remote call, and once its result is written back it is
\* failed with the missing-identifier message "Missing SKU".
C3_MissingIdentifier ==
    Constructed =>
        \A i \in Rows :
            (df0.rows[i][SkuCol(df0.rows[i])] = ""
               /\ Lower(df0.rows[i]["status"]) \notin SKIP_STATUSES)
            => /\ calls[i] = NoCalls
               /\ i \in merged =>
                    /\ df.rows[i]["status"] = STATUS_FAILED
                    /\ df.rows[i]["error_message"] = "Missing SKU"

\* C4: when the search call of a row returns an empty record set, the row's
\* result is failed with the error message "empty search result" and the row
\* goes no further (no submit call).
C4_EmptySearchMessage ==
    [][\A i \in Rows :
          SearchReturns(i, "empty")
          => /\ tstate'[i] = "done"
             /\ tres'[i].status = STATUS_FAILED
             /\ tres'[i].error_message = "empty search result"]_vars

\* C5: a payload built in warehouse mode never has the key external_platform,
\* whatever the row's warehouse cell, and a payload built in taobao
\* (marketplace) mode never has the key warehouse_id.
C5_ModeExclusive ==
    \A i \in Rows :
        built[i] # <<>> =>
            /\ mode = "warehouse" => "external_platform" \notin DOMAIN built[i][1].hktv
            /\ mode = "taobao" => "warehouse_id" \notin DOMAIN built[i][1].hktv

\* the rows of the previous result file with the identifier of source row i
PrevMatches(i) ==
    LET base == NormCols(ReadExcel(source))
        prev == NormCols(ReadExcel(outFile))
        key == ResumeKey(base.cols)
    IN {j \in 1..Len(prev.rows) : prev.rows[j][key] = base.rows[i][key]}

\* C6: when a result file exists and shares rows with the source file by
\* identifier, the constructed dataset has, for every source row with a match,
\* the status, record_id and error_message of the result file, and blank
\* tracked columns for every source row without a match, whether or not the
\* source file has the three columns itself.
C6_ResumeCarriesResults ==
    (pc = "ready" /\ outFile.exists /\ \E i \in Rows : PrevMatches(i) # {}) =>
        \A i \in Rows :
            IF PrevMatches(i) # {}
            THEN \E j \in PrevMatches(i) :
                   \A c \in Tracked :
                       SameCell(df.rows[i][c], NormCols(ReadExcel(outFile)).rows[j][c])
            ELSE \A c \in Tracked : Blank(df.rows[i][c])

\* C7: in a second run on the same source file with the output file of the
\* first run present, a row that ended the first run as success or failed
\* gets no search and no submit call and keeps its status, record_id and
\* error_message.
C7_SecondRunIdempotent ==
    (run = 2 /\ Constructed) =>
        \A i \in Rows :
            end1.rows[i]["status"] \in {STATUS_SUCCESS, STATUS_FAILED}
            => /\ calls[i].search = 0
               /\ calls[i].submit = 0
               /\ \A c \in Tracked : SameCell(df.rows[i][c], end1.rows[i][c])

\* C8: when cancellation was requested during the submit phase or during a
\* poll round, the orchestrator ends by returning normally, and the output
\* file then holds a snapshot of every result merged so far.
C8_CancelReturnsWithSnapshot ==
    (stopAt \in {"submit", "round"} /\ pc \in {"done", "raised"})
    => (pc = "done" /\ outFile = ToExcel(df))

\* C9: when the last updating row reaches success or failed in poll round K,
\* poll returns after round K: it has done exactly K rounds, no row was
\* fetched more than K times, and it has slept K - 1 times, so not after the
\* final round.
C9_PollEndsAtFinalRound ==
    (pc = "done" /\ Updating(df) = {} /\ attempt >= 1) =>
        /\ resolvedAt = attempt
        /\ sleeps = attempt - 1
        /\ \A i \in Rows : calls[i].status <= attempt

\* poll has returned after two rounds and one sleep, uncancelled, with every
\* row out of updating
C9_Witness ==
    /\ pc = "done"
    /\ running
    /\ Updating(df) = {}
    /\ attempt = 2
    /\ sleeps = 1
    /\ \E i \in Rows : calls[i].status = 2 /\ df.rows[i]["status"] \in {STATUS_SUCCESS, STATUS_FAILED}

RoundPcs == {"poll_dispatch", "poll_collect", "poll_merge", "poll_clear", "poll_save", "poll_write"}

\* C10: poll never does more rounds than max_retries, a round is only under
\* way for a non-empty selection of updating rows, and with no max_retries
\* poll returns uncancelled only when no row is updating any more.
C10_RoundsWithinBudget ==
    /\ \A n \in maxRetries : attempt <= n
    /\ pc \in RoundPcs => pending # {} /\ attempt >= 1
    /\ (pc = "done" /\ maxRetries = {} /\ running) => Updating(df) = {}

\* poll has returned uncancelled because its budget of rounds is used up,
\* with a row still updating
C10_Witness ==
    /\ pc = "done"
    /\ running
    /\ attempt >= 1
    /\ maxRetries = {attempt}
    /\ Updating(df) # {}

\* C11: a row the submit phase has put in updating has a non-empty record_id:
\* updating is set only for a submit response that carries the success flag
\* and a record id, every other response sets the row to failed.
C11_UpdatingHasRecordId ==
    \A i \in merged :
        df.rows[i]["status"] = STATUS_UPDATING => ~Blank(df.rows[i]["record_id"])

\* the result of a row that failed, written for the row alone: the pool's
\* other tasks and the submit loop are where they were
FailedAlone(i, msg) ==
    /\ tres'[i] = Result(STATUS_FAILED, "", msg)
    /\ pc' = pc
    /\ \A j \in Rows \ {i} : tstate'[j] = tstate[j] /\ tres'[j] = tres[j]

\* C12: an exception raised while one row is processed (request error once
\* the retries are used up, empty search result, payload build error) makes
\* that row failed with the exception's message and nothing else: it does not
\* leave the submit phase, which raises only after a cancellation, and when
\* the phase returns every row has been taken to its own outcome, each row a
\* request was made for being updating or failed with a message.
C12_RowErrorsStayInRow ==
    [][/\ \A i \in Rows :
            /\ SearchReturns(i, "error") => FailedAlone(i, RequestFailed)
            /\ SearchReturns(i, "empty")
                 => FailedAlone(i, BuildRaises(template, <<>>)) /\ BuildRaises(template, <<>>) # ""
            /\ SubmitReturns(i, "error") => FailedAlone(i, RequestFailed)
       /\ pc' = "raised" => stopPc' # "idle"
       /\ pc' = "poll_enter" =>
            \A i \in Rows :
                /\ tstate'[i] = "collected"
                /\ calls'[i].search > 0 =>
                     \/ df'.rows[i]["status"] = STATUS_UPDATING
                     \/ /\ df'.rows[i]["status"] = STATUS_FAILED
                        /\ ~Blank(df'.rows[i]["error_message"])]_vars

\* the submit phase has returned, uncancelled, with one row failed on a
\* request error and another row submitted
C12_Witness ==
    /\ pc = "poll_enter"
    /\ running
    /\ \E i, j \in Rows :
         /\ df.rows[i]["status"] = STATUS_FAILED
         /\ df.rows[i]["error_message"] = RequestFailed
         /\ df.rows[j]["status"] = STATUS_UPDATING

\* the delay before retry k + 1 of a call: the initial delay multiplied k
\* times by the backoff factor
RECURSIVE ExpectedDelay(_, _)
ExpectedDelay(k, backoff) ==
    IF k = 0 THEN INITIAL_DELAY ELSE (ExpectedDelay(k - 1, backoff) * backoff) \div 1000

CallEnded(t) == th[t].pc \in {"returned", "failed", "ctor_raised"}

CallBounded(t) ==
    /\ th[t].sends <= api.max_retries
    /\ th[t].attempt <= api.max_retries
    /\ th[t].pc = "failed" <=> th[t].attempt = api.max_retries
    /\ Len(th[t].slept) = IF th[t].pc = "failed" THEN th[t].attempt - 1 ELSE th[t].attempt
    /\ \A k \in 1..Len(th[t].slept) : th[t].slept[k] = ExpectedDelay(k - 1, api.backoff)

\* C13: an API call terminates.  It makes at most max_retries attempts; the
\* delay slept after failed attempt k is the initial delay multiplied k - 1
\* times by the backoff factor; the call fails with the request error when
\* max_retries attempts have failed and not before, and is then not retried.
C13_RequestTerminates ==
    /\ [](\A t \in Threads : CallBounded(t))
    /\ <>CallEnded(1)

\* a call has failed after three attempts with backoff 1.5, having slept
\* 1 s and then 1.5 s
C13_Witness ==
    /\ api.max_retries = 3
    /\ api.backoff = 1500
    /\ th[1].pc = "failed"
    /\ th[1].sends = 3
    /\ th[1].slept = <<1000, 1500>>

\* C14: after an attempt that received 401 and whose refresh obtained a token,
\* the next attempt of the call is sent with that token or a later one, and a
\* call answered 401 every time still makes at most max_retries attempts.
C14_RetryWithNewToken ==
    \A t \in Threads :
        /\ (th[t].pc = "wait" /\ th[t].need > 0) => th[t].sent >= th[t].need
        /\ th[t].sends <= api.max_retries

InRefresh(t) == th[t].pc \in {"login", "wtoken", "wexpiry"}

\* C15: among the threads sharing the client at most one is inside refresh()
\* at a time, and the token and the expiry a thread finds in get() when it
\* attaches the stored token come from the same login.
C15_RefreshExclusive ==
    /\ Cardinality({t \in Threads : InRefresh(t)}) <= 1
    /\ \A t \in Threads :
         (th[t].pc \in {"ret", "wait"} /\ ~th[t].chk.login)
           => th[t].chk.token = th[t].chk.expLogin

\* what holds of a get() that has made its test and is about to return
GetValid(t) ==
    /\ th[t].chk.login <=>
         (th[t].chk.token = 0 \/ th[t].chk.expLogin = 0 \/ th[t].chk.now >= th[t].chk.expAt)
    /\ th[t].chk.posts = IF th[t].chk.login THEN 1 ELSE 0
    /\ tok.token > 0
    /\ th[t].chk.now < logins[tok.token] + TOKEN_TTL

\* C16: get() logs in if and only if the token is absent or the time has
\* reached the expiry, and otherwise returns the stored token with no login
\* call; the token it returns was issued less than 20 minutes before the
\* test; the stored expiry is 20 minutes after the last successful login; a
\* login answered with a status other than 200 raises the error with status
\* and body and leaves token and expiry as they were.
C16_GetReturnsValidToken ==
    [][/\ \A t \in Threads : th'[t].pc = "ret" => GetValid(t)'
       /\ (\A t \in Threads : ~InRefresh(t)') =>
             \/ tok' = NoToken
             \/ /\ tok'.token > 0
                /\ tok'.expLogin > 0
                /\ tok'.expAt = logins'[Len(logins')] + TOKEN_TTL
       /\ \A t \in Threads :
             Login(t, "500") => /\ th'[t].err = "Login failed 500 body"
                                /\ th'[t].pc \in {"ctor_raised", "except"}
                                /\ tok' = tok]_vars

\* get() has found the token expired, has logged in again, and is about to
\* return the second token
C16_Witness ==
    /\ th[1].pc = "ret"
    /\ th[1].chk.login
    /\ th[1].chk.token = 1
    /\ th[1].chk.now = TOKEN_TTL
    /\ tok.token = 2

\* a poll round writes back the result of row i as _status_row returned it
StatusWritten(i) ==
    (pc = "poll_merge" /\ tstate[i] = "merging" /\ tstate'[i] = "collected")
      => /\ df'.rows[i]["status"] = tres[i].status
         /\ tres[i].error_message # "" => df'.rows[i]["error_message"] = tres[i].error_message

\* C17 as stated: in a poll round "success" sets the row to success, "fail"
\* and "failed" set it to failed with the error messages of the record's rows
\* joined by "|", and "updating" and any other status string leave the row in
\* updating.
C17_StatusMapping_Stated ==
    [][\A i \in Rows :
         /\ StatusReturns(i, "success") => tres'[i] = Result(STATUS_SUCCESS, "", "")
         /\ StatusReturns(i, "fail") => tres'[i] = Result(STATUS_FAILED, "", "e1|e2")
         /\ StatusReturns(i, "failed") => tres'[i].status = STATUS_FAILED
         /\ StatusReturns(i, "updating") => tres'[i] = Result(STATUS_UPDATING, "", "")
         /\ StatusReturns(i, "processing") => tres'[i] = Result(STATUS_UPDATING, "", "")
         /\ StatusWritten(i)]_vars

\* C17, amended: the same mapping, the error messages being joined by " | "
\* (a bar between two spaces), and the message being "Update failed" when the
\* record has no row with a message.
C17_StatusMapping ==
    [][\A i \in Rows :
         /\ StatusReturns(i, "success") => tres'[i] = Result(STATUS_SUCCESS, "", "")
         /\ StatusReturns(i, "fail") => tres'[i] = Result(STATUS_FAILED, "", "e1 | e2")
         /\ StatusReturns(i, "failed") => tres'[i] = Result(STATUS_FAILED, "", "Update failed")
         /\ StatusReturns(i, "updating") => tres'[i] = Result(STATUS_UPDATING, "", "")
         /\ StatusReturns(i, "processing") => tres'[i] = Result(STATUS_UPDATING, "", "")
         /\ StatusWritten(i)]_vars

\* a poll round has ended with one row failed on two joined messages and the
\* other row still updating
C17_Witness ==
    /\ pc = "poll_save"
    /\ \E i, j \in Rows :
         /\ df.rows[i]["status"] = STATUS_FAILED
         /\ df.rows[i]["error_message"] = "e1 | e2"
         /\ df.rows[j]["status"] = STATUS_UPDATING
         /\ calls[j].status > 0

\* C18: when a column the mode requires is missing from the loaded dataset,
\* construction fails and that is all that happens: no pool is created, no
\* row is dispatched, no search, submit or status call is made and no
\* snapshot is written.
C18_MissingColumnIsFatal ==
    (pc # "new" /\ \E c \in Required(mode) : c \notin df0.cols) =>
        /\ pc = "ctor_raised"
        /\ executor = "none"
        /\ \A i \in Rows : tstate[i] = "none" /\ calls[i] = NoCalls
        /\ outFile = NoFile

\* construction has failed on a sheet without the sku column
C18_Witness ==
    /\ pc = "ctor_raised"
    /\ Strip(Lower(SkuHeader(mode))) \notin df0.cols
    /\ Lower(Strip(TargetHeader(mode))) \in df0.cols
    /\ outFile = NoFile

\* C19: when an error leaves the submit phase or a poll round after row
\* results have been written back to the dataset, the output file holds those
\* results by the time the error reaches the caller.
C19_MergedSavedBeforeRaise ==
    (pc = "raised" /\ df # df0) => outFile = ToExcel(df)

\* where the orchestrator is about to ask for the lock
LockRequested(p) == p \in {"sub_save", "poll_save"}

\* C20: in the submit phase and in the poll rounds the dataset is written
\* and the snapshot is saved only while the orchestrator lock is held; the
\* lock is taken only when it is free, so that no two critical sections
\* overlap, and it is free whenever _save asks for it.
C20_WritesUnderLock ==
    [][/\ (df' # df /\ pc # "new") => lock = "main"
       /\ outFile' # outFile => lock = "main"
       /\ (lock' = "main" /\ lock' # lock) => lock = "free"
       /\ LockRequested(pc') => lock' = "free"
       /\ pc' \in {"sub_merge", "sub_write", "poll_merge", "poll_write"} <=> lock' = "main"]_vars

\* the snapshot of the submit phase is being written under the lock, after a
\* result was written back
C20_Witness ==
    /\ pc = "sub_write"
    /\ lock = "main"
    /\ merged # {}
    /\ df # df0

\* ---- C21
\* the last "." of a path, and the name "<base>_result.<ext>" it gives
LastDot(path) ==
    LET dots == {k \in 1..Len(path) : path[k] = "."}
    IN  CHOOSE k \in dots : \A j \in dots : j <= k

ResultName(path) ==
    SubSeq(path, 1, LastDot(path) - 1) \o Suffix_result
        \o SubSeq(path, LastDot(path), Len(path))

\* C21: for every accepted input path the results go to
\* <input-base-name>_result.<ext>, a path other than the input path, and no
\* step of the run changes the source file.
C21_ResultPathDistinct ==
    [][ /\ Constructed' =>
            /\ paths'.output_file = ResultName(paths'.source_file)
            /\ paths'.output_file # paths'.source_file
        /\ source' = source ]_vars

\* an accepted ".xls" run has written its snapshot
C21_Witness ==
    /\ paths.source_file = <<"a">> \o DotXls
    /\ pc = "poll_enter"

\* ---- C22
\* a remote call of row i fails (the exception reaches the except clause)
RowException(i) == SearchReturns(i, "error") \/ SubmitReturns(i, "error")

\* C22: when a row's processing raises after stop() has set the cancellation
\* flag, the row is left unresolved: its result is the skipped one, which the
\* merge loop passes over, so it is not recorded as failed and its status,
\* record_id and error_message stay as they were.
C22_ExceptionAfterStopUnresolved ==
    [][\A i \in Rows : (~running /\ RowException(i)) => tres'[i].skip]_vars

\* ---- C23
\* a worker takes row i's task from the queue
TaskStarts(i) == UpdateRowStart(i) \/ StatusRowStart(i)

\* the as_completed loop takes the skipped result of row i
SkippedCollected(i) == tstate[i] = "done" /\ tres[i].skip /\ tstate'[i] = "collected"

Terminal(status) == status \in {STATUS_SUCCESS, STATUS_FAILED}

\* a worker sends the status request of row i
FetchIssued(i) == tstate[i] = "pqueued" /\ tstate'[i] = "status"

\* C24: once the dataset holds success or failed for a row, no step of the
\* submit phase or of a poll round changes that row's status; and a status
\* request is sent only for a row of the round's selection, the rows in
\* updating when the round began, which is still in updating then.
C24_TerminalAbsorbing ==
    [][ Constructed =>
          \A i \in Rows :
              /\ Terminal(df.rows[i]["status"]) =>
                      df'.rows[i]["status"] = df.rows[i]["status"]
              /\ FetchIssued(i) =>
                      i \in pending /\ Lower(df.rows[i]["status"]) = STATUS_UPDATING ]_vars

\* the sheet's failed row is still failed after a poll round that fetched
\* another row and resolved it
C24_Witness ==
    /\ pc = "done"
    /\ attempt >= 1
    /\ \E i, j \in Rows :
          /\ df0.rows[i]["status"] = STATUS_FAILED
          /\ df.rows[i]["status"] = STATUS_FAILED
          /\ calls[i] = NoCalls
          /\ calls[j].status >= 1
          /\ Terminal(df.rows[j]["status"])

\* ---- C25
\* the status fetch of row i is queued, running, or done and not yet taken
InFlight(i) == tstate[i] \in {"pqueued", "status", "done", "merging"}

\* C25: when a round's snapshot is written every status fetch the round
\* dispatched has completed and its result has been merged or passed over;
\* the sleep comes after the snapshot of the dataset as it is then; and no
\* fetch of a round is still under way when the loop is back at its head, so
\* fetches of two rounds never run together.
C25_RoundsAreBarriers ==
    /\ pc \in {"poll_clear", "poll_save", "poll_write"} =>
          \A i \in pending : tstate[i] = "collected"
    /\ pc = "poll_sleep" => outFile = ToExcel(df)
    /\ pc \in {"poll_sleep", "poll_top"} => \A i \in Rows : ~InFlight(i)

\* the snapshot of a second round is about to be written, after fetches in
\* both rounds
C25_Witness ==
    /\ pc = "poll_write"
    /\ attempt = 2
    /\ sleeps = 1
    /\ \E i \in pending : calls[i].status = 2

\* ---- C26
\* C26: stop() called at any moment of the run from another thread never
\* raises, also when the orchestrator clears its executor reference between
\* the two reads of stop(); once stop() has returned the flag is set.
C26_StopNeverRaises ==
    /\ stopPc # "raised"
    /\ stopPc = "done" => ~running

\* ---- C27
\* the overlay of the previous result file raises inside the try of __init__
MergeFails ==
    /\ outFile.exists
    /\ LET base == NormCols(ReadExcel(source))
           prev == NormCols(ReadExcel(outFile))
           key == ResumeKey(base.cols)
       IN /\ key \in base.cols
          /\ key \in prev.cols
          /\ UpdateRaises(SetIndex(prev, key))

\* C27: when the overlay of the previous result file fails, construction goes
\* on as for a new run on the source as it was read: every source column, the
\* identifier column too, is a column of the dataset, and the required-column
\* validation and the prepared dataset are those of a run with no result file.
C27_FailedMergeIsFreshRun ==
    (pc # "new" /\ MergeFails) =>
        LET base == NormCols(ReadExcel(source))
        IN /\ base.cols \subseteq df.cols
           /\ pc = IF PrepareRaises(mode, base) THEN "ctor_raised" ELSE "ready"
           /\ pc = "ready" => df = Prepare(mode, base)

====
